---- MODULE Spec2Model ----
(***************************************************************************)
(* A model of TempTowerController (src/TempTowerController.py) and of the  *)
(* layer-counting rewriter it delegates to.                                *)
(*                                                                         *)
(* Units.  Lengths are integers in hundredths of a millimetre (0.8 mm is   *)
(* 80, a layer height of 0.2 mm is 20), temperatures are integers.  For    *)
(* every layer height of 0.01 mm .. 10.00 mm the double-precision          *)
(* math.ceil(0.8 / lh) and math.ceil(8.0 / lh) of the source equal the     *)
(* exact ceiling computed here.                                            *)
(*                                                                         *)
(* Text.  A Python str is a sequence of one-character strings, so that     *)
(* float(str) is a computation that can fail.                              *)
(***************************************************************************)
EXTENDS Integers, Sequences, FiniteSets, TLC

VARIABLES
    self,                   \* instance attributes set by assignment: name -> value
    cachedSettingsDialog,   \* "None" or "dialog"
    startTemperatureStr,
    endTemperatureStr,
    temperatureChangeStr,
    materialLabelStr,
    towerDescriptionStr,
    layer_height,           \* the host's current "layer_height" setting
    lastOp,                 \* [name, preset]: the operation that ran last
    outcome,                \* how it ended: "ok", a logged error, or the exception raised
    query,                  \* the values the layer-height query returned during it
    calls,                  \* the outgoing calls it made (callbacks, the rewriter)
    handed,                 \* <<schedule>> stored when postProcess was last handed out
    gcode,                  \* rewriter: the stream being rewritten
    schedule,               \* rewriter: [startTemperature, temperatureChange, sectionLayers, baseLayers]
    pos,                    \* rewriter: lines scanned so far
    currentLayerIndex,      \* rewriter: layer-boundary markers seen so far
    out,                    \* rewriter: the stream written so far
    rwState                 \* rewriter: "scanning", "done", "MalformedInstructionStream"

ctlVars == <<self, cachedSettingsDialog, startTemperatureStr, endTemperatureStr,
             temperatureChangeStr, materialLabelStr, towerDescriptionStr,
             layer_height, lastOp, outcome, query, calls, handed>>

rwVars == <<gcode, schedule, pos, currentLayerIndex, out, rwState>>

vars == <<ctlVars, rwVars>>

(***************************************************************************)
(* Class attributes                                                        *)
(***************************************************************************)
openScadFilename == "temptower.scad"

nominalBaseHeight == 80

nominalSectionHeight == 800

PresetEntry(filename, startValue, changeValue) ==
    ("filename" :> filename) @@ ("start value" :> startValue) @@ ("change value" :> changeValue)

presetTables ==
    ("aba"   :> PresetEntry("temptower-aba.stl",   260, 5)) @@
    ("abs"   :> PresetEntry("temptower-abs.stl",   250, 5)) @@
    ("nylon" :> PresetEntry("temptower-nylon.stl", 260, 5)) @@
    ("pc"    :> PresetEntry("temptower-pc.stl",    310, 5)) @@
    ("petg"  :> PresetEntry("temptower-petg.stl",  250, 5)) @@
    ("pla"   :> PresetEntry("temptower-pla.stl",   230, 5)) @@
    ("pla+"  :> PresetEntry("temptower-pla+.stl",  230, 5)) @@
    ("tpu"   :> PresetEntry("temptower-tpu.stl",   230, 5))

(***************************************************************************)
(* Inputs                                                                  *)
(***************************************************************************)
\* Texts the dialog may put into its three numeric fields.
StartTexts == { <<"2", "2", "0">>, <<"a", "b", "c">> }

EndTexts == { <<"1", "8", "0">>, <<"2", "2", "0">>, <<"2", "6", "0">> }

ChangeTexts == { <<"-", "5">>, <<"5">>, <<"a", "b", "c">> }

\* Texts for the two label fields.
LabelTexts == { <<>>, <<"P", "L", "A">> }

\* Preset names a caller may request: two keys, a key in the wrong case, a stranger.
PresetNames == {"pla", "pc", "PLA", "wood"}

\* Values the host's layer-height setting may hold (-0.2, 0, 0.2, 0.3, 1.0 mm).
LayerHeights == {-20, 0, 20, 30, 100}

(***************************************************************************)
(* Python built-ins                                                        *)
(***************************************************************************)
Digits == ("0" :> 0) @@ ("1" :> 1) @@ ("2" :> 2) @@ ("3" :> 3) @@ ("4" :> 4) @@
          ("5" :> 5) @@ ("6" :> 6) @@ ("7" :> 7) @@ ("8" :> 8) @@ ("9" :> 9)

RECURSIVE digitsValue(_)
digitsValue(s) ==
    IF s = <<>> THEN 0
    ELSE 10 * digitsValue(SubSeq(s, 1, Len(s) - 1)) + Digits[s[Len(s)]]

unsignedPart(s) ==
    IF s # <<>> /\ s[1] \in {"+", "-"} THEN Tail(s) ELSE s

\* float(s) raises ValueError: s is not an optionally signed run of digits.
floatRaises(s) ==
    \/ unsignedPart(s) = <<>>
    \/ \E i \in 1..Len(unsignedPart(s)) : unsignedPart(s)[i] \notin DOMAIN Digits

float(s) ==
    IF s # <<>> /\ s[1] = "-" THEN 0 - digitsValue(unsignedPart(s))
    ELSE digitsValue(unsignedPart(s))

abs(x) == IF x < 0 THEN 0 - x ELSE x

\* math.ceil(a / b) for b # 0.
ceil(a, b) ==
    IF b > 0 THEN 0 - ((0 - a) \div b) ELSE 0 - (a \div (0 - b))

(***************************************************************************)
(* Attribute access                                                        *)
(***************************************************************************)
hasattr(obj, name) == name \in DOMAIN obj

\* obj with obj.name = value executed
setattr(obj, name, value) ==
    [n \in DOMAIN obj \cup {name} |-> IF n = name THEN value ELSE obj[n]]

NoOp == [name |-> "__init__", preset |-> ""]

Op(name) == [name |-> name, preset |-> ""]

(***************************************************************************)
(* Construction                                                            *)
(***************************************************************************)
selfInit ==
    ("_startTemperature" :> 0) @@ ("_temperatureChange" :> 0) @@ ("_baseLayers" :> 0)

rwIdle ==
    /\ gcode = <<>>
    /\ schedule = [startTemperature |-> 0, temperatureChange |-> 0,
                   sectionLayers |-> 1, baseLayers |-> 0]
    /\ pos = 0
    /\ currentLayerIndex = 0
    /\ out = <<>>
    /\ rwState = "done"

ctlInit ==
    /\ self = selfInit
    /\ cachedSettingsDialog = "None"
    /\ startTemperatureStr = <<"2", "2", "0">>
    /\ endTemperatureStr = <<"1", "8", "0">>
    /\ temperatureChangeStr = <<"-", "5">>
    /\ materialLabelStr = <<>>
    /\ towerDescriptionStr = <<>>
    /\ layer_height \in {l \in LayerHeights : l > 0}
    /\ lastOp = NoOp
    /\ outcome = "ok"
    /\ query = <<>>
    /\ calls = <<>>
    /\ handed = <<>>

Init == ctlInit /\ rwIdle

(***************************************************************************)
(* The g-code stream: a line is [op, arg]; ";LAYER" is the layer-boundary  *)
(* marker the slicer writes, "M104" the temperature instruction.           *)
(***************************************************************************)
Line(op, arg) == [op |-> op, arg |-> arg]

Marker == Line(";LAYER", 0)

Move == Line("G1", 0)

\* The streams the host hands to postProcess in the controller's specification.
SampleGcode == { <<Move, Marker, Move>>, <<Move, Marker, Move, Marker, Move>> }

(***************************************************************************)
(* Property setters (pyqtProperty fset) and the host's setting             *)
(***************************************************************************)
\* Every operation records its name, how it ended, and what it asked and called.
Ends(op, oc, q, c) ==
    /\ lastOp' = op
    /\ outcome' = oc
    /\ query' = q
    /\ calls' = c

setStartTemperatureStr(value) ==
    /\ startTemperatureStr' = value
    /\ Ends(Op("setStartTemperatureStr"), "ok", <<>>, <<>>)
    /\ UNCHANGED <<self, cachedSettingsDialog, endTemperatureStr, temperatureChangeStr,
                   materialLabelStr, towerDescriptionStr, layer_height, handed, rwVars>>

setEndTemperatureStr(value) ==
    /\ endTemperatureStr' = value
    /\ Ends(Op("setEndTemperatureStr"), "ok", <<>>, <<>>)
    /\ UNCHANGED <<self, cachedSettingsDialog, startTemperatureStr, temperatureChangeStr,
                   materialLabelStr, towerDescriptionStr, layer_height, handed, rwVars>>

setTemperatureChangeStr(value) ==
    /\ temperatureChangeStr' = value
    /\ Ends(Op("setTemperatureChangeStr"), "ok", <<>>, <<>>)
    /\ UNCHANGED <<self, cachedSettingsDialog, startTemperatureStr, endTemperatureStr,
                   materialLabelStr, towerDescriptionStr, layer_height, handed, rwVars>>

setMaterialLabelStr(value) ==
    /\ materialLabelStr' = value
    /\ Ends(Op("setMaterialLabelStr"), "ok", <<>>, <<>>)
    /\ UNCHANGED <<self, cachedSettingsDialog, startTemperatureStr, endTemperatureStr,
                   temperatureChangeStr, towerDescriptionStr, layer_height, handed, rwVars>>

setTowerDescriptionStr(value) ==
    /\ towerDescriptionStr' = value
    /\ Ends(Op("setTowerDescriptionStr"), "ok", <<>>, <<>>)
    /\ UNCHANGED <<self, cachedSettingsDialog, startTemperatureStr, endTemperatureStr,
                   temperatureChangeStr, materialLabelStr, layer_height, handed, rwVars>>

\* The user changes the layer height in the host between two requests.
setLayerHeight(value) ==
    /\ layer_height' = value
    /\ Ends(Op("setLayerHeight"), "ok", <<>>, <<>>)
    /\ UNCHANGED <<self, cachedSettingsDialog, startTemperatureStr, endTemperatureStr,
                   temperatureChangeStr, materialLabelStr, towerDescriptionStr, handed,
                   rwVars>>

strings == <<startTemperatureStr, endTemperatureStr, temperatureChangeStr,
             materialLabelStr, towerDescriptionStr>>

(***************************************************************************)
(* generate, _loadPreset                                                   *)
(***************************************************************************)
\* Faulty variant: an unknown name falls back to the 'pla' table, as dict.get(name, default) would.
loadPresetTable_default(presetName) ==
    IF presetName \in DOMAIN presetTables
    THEN <<presetTables[presetName]>>
    ELSE <<presetTables["pla"]>>

\* try: presetTable = self._presetTables[presetName]; <<>> is the KeyError
loadPresetTable(presetName) ==
    IF presetName \in DOMAIN presetTables THEN <<presetTables[presetName]>> ELSE <<>>

\* Faulty variant: the layer count rounded down, as int(nominalHeight / layerHeight) would.
layers_floor(nominalHeight, layerHeight) ==
    0 - ceil(0 - nominalHeight, layerHeight)

\* math.ceil(nominalHeight / layerHeight)
layers(nominalHeight, layerHeight) == ceil(nominalHeight, layerHeight)

\* os.path.join(self._stlPath, stlFileName)
stlFilePath(stlFileName) == <<"stlPath", stlFileName>>

loadPreset(presetName) ==
    LET op == [name |-> "_loadPreset", preset |-> presetName]
        found == loadPresetTable(presetName)
    IN
    /\ UNCHANGED <<cachedSettingsDialog, strings, layer_height, rwVars>>
    /\ IF found = <<>>
       THEN /\ Ends(op, "UnknownPreset", <<>>, <<>>)
            /\ UNCHANGED <<self, handed>>
       ELSE
       LET presetTable == found[1]
           self1 == setattr(self, "_startTemperature", presetTable["start value"])
           self2 == setattr(self1, "_temperatureChange", presetTable["change value"])
           layerHeight == layer_height
           self3 == setattr(self2, "_baseLayers", layers(nominalBaseHeight, layerHeight))
           self4 == setattr(self3, "_sectionLayers", layers(nominalSectionHeight, layerHeight))
       IN
       IF "filename" \notin DOMAIN presetTable
       THEN /\ Ends(op, "IncompletePresetEntry", <<>>, <<>>)
            /\ UNCHANGED <<self, handed>>
       ELSE IF "start value" \notin DOMAIN presetTable
       THEN /\ Ends(op, "IncompletePresetEntry", <<>>, <<>>)
            /\ UNCHANGED <<self, handed>>
       ELSE IF "change value" \notin DOMAIN presetTable
       THEN /\ Ends(op, "IncompletePresetEntry", <<>>, <<>>)
            /\ self' = self1
            /\ UNCHANGED handed
       ELSE IF layerHeight = 0
       THEN /\ Ends(op, "ZeroDivisionError", <<layerHeight>>, <<>>)
            /\ self' = self2
            /\ UNCHANGED handed
       ELSE /\ self' = self4
            /\ handed' = <<self4>>
            /\ Ends(op, "ok", <<layerHeight>>,
                    << [fn |-> "loadStlCallback",
                        file |-> stlFilePath(presetTable["filename"]),
                        callback |-> "postProcess"] >>)

\* self._settingsDialog.show(), with the dialog's lazy instantiation
showSettingsDialog ==
    /\ cachedSettingsDialog' = "dialog"
    /\ Ends([name |-> "generate", preset |-> ""], "ok", <<>>, <<>>)
    /\ UNCHANGED <<self, strings, layer_height, handed, rwVars>>

generate(preset) ==
    IF preset # "" THEN loadPreset(preset) ELSE showSettingsDialog

(***************************************************************************)
(* dialogAccepted                                                          *)
(***************************************************************************)
\* Faulty variant: the magnitude is taken but the falling case never negated.
correctSign_abs(startTemperature, endTemperature, temperatureChange) ==
    abs(temperatureChange)

\* Faulty variant: the nominal heights are sent instead of the whole-layer heights.
openScadParameters_nominal(startTemperature, endTemperature, temperatureChange, baseHeight, sectionHeight, materialLabel, towerDescription) ==
    [Starting_Value |-> startTemperature,
     Ending_Value   |-> endTemperature,
     Value_Change   |-> temperatureChange,
     Base_Height    |-> nominalBaseHeight,
     Section_Height |-> nominalSectionHeight,
     Column_Label   |-> materialLabel,
     Tower_Label    |-> towerDescription]

\* Ensure the change amount has the correct sign
correctSign(startTemperature, endTemperature, temperatureChange) ==
    IF endTemperature >= startTemperature
    THEN abs(temperatureChange)
    ELSE 0 - abs(temperatureChange)

openScadParameters(startTemperature, endTemperature, temperatureChange, baseHeight, sectionHeight, materialLabel, towerDescription) ==
    [Starting_Value |-> startTemperature,
     Ending_Value   |-> endTemperature,
     Value_Change   |-> temperatureChange,
     Base_Height    |-> baseHeight,
     Section_Height |-> sectionHeight,
     Column_Label   |-> materialLabel,
     Tower_Label    |-> towerDescription]

dialogAccepted ==
    LET op == Op("dialogAccepted") IN
    /\ cachedSettingsDialog = "dialog"
    /\ UNCHANGED <<cachedSettingsDialog, strings, layer_height, rwVars>>
    /\ IF \/ floatRaises(startTemperatureStr)
          \/ floatRaises(endTemperatureStr)
          \/ floatRaises(temperatureChangeStr)
       THEN /\ Ends(op, "ValueError", <<>>, <<>>)
            /\ UNCHANGED <<self, handed>>
       ELSE
       LET startTemperature == float(startTemperatureStr)
           endTemperature == float(endTemperatureStr)
           typedChange == float(temperatureChangeStr)
           layerHeight == layer_height
           baseLayers == layers(nominalBaseHeight, layerHeight)
           baseHeight == baseLayers * layerHeight
           sectionLayers == layers(nominalSectionHeight, layerHeight)
           sectionHeight == sectionLayers * layerHeight
           temperatureChange == correctSign(startTemperature, endTemperature, typedChange)
           self1 == setattr(self, "_baseLayers", baseLayers)
           self2 == setattr(self1, "_sectionLayers", sectionLayers)
           self3 == setattr(self2, "_startTemperature", startTemperature)
           self4 == setattr(self3, "_temperatureChange", temperatureChange)
       IN
       IF layerHeight = 0
       THEN /\ Ends(op, "ZeroDivisionError", <<layerHeight>>, <<>>)
            /\ UNCHANGED <<self, handed>>
       ELSE /\ self' = self4
            /\ handed' = <<self4>>
            /\ Ends(op, "ok", <<layerHeight>>,
                    << [fn |-> "generateAndLoadStlCallback",
                        file |-> openScadFilename,
                        params |-> openScadParameters(startTemperature, endTemperature,
                                       temperatureChange, baseHeight, sectionHeight,
                                       materialLabelStr, towerDescriptionStr),
                        callback |-> "postProcess"] >>)

(***************************************************************************)
(* postProcess                                                             *)
(***************************************************************************)
postProcess(g) ==
    LET op == Op("postProcess") IN
    /\ UNCHANGED <<self, cachedSettingsDialog, strings, layer_height, handed, rwVars>>
    /\ IF floatRaises(startTemperatureStr) \/ floatRaises(temperatureChangeStr)
       THEN Ends(op, "ValueError", <<>>, <<>>)
       ELSE IF ~ hasattr(self, "_sectionLayers")
       THEN Ends(op, "AttributeError", <<>>, <<>>)
       ELSE Ends(op, "ok", <<>>,
                 << [fn |-> "TempTower_PostProcessing.execute",
                     args |-> <<g, self["_startTemperature"], self["_temperatureChange"],
                                self["_sectionLayers"], self["_baseLayers"]>>] >>)

Next ==
    \/ \E value \in StartTexts : setStartTemperatureStr(value)
    \/ \E value \in EndTexts : setEndTemperatureStr(value)
    \/ \E value \in ChangeTexts : setTemperatureChangeStr(value)
    \/ \E value \in LabelTexts : setMaterialLabelStr(value)
    \/ \E value \in LabelTexts : setTowerDescriptionStr(value)
    \/ \E value \in LayerHeights : setLayerHeight(value)
    \/ \E preset \in PresetNames \cup {""} : generate(preset)
    \/ dialogAccepted
    \/ \E g \in SampleGcode : postProcess(g)

Spec == Init /\ [][Next]_vars

(***************************************************************************)
(* Properties of the controller, checked under Spec                        *)
(***************************************************************************)
IsRequest == lastOp.name \in {"_loadPreset", "dialogAccepted"}

ScheduleFields == {"_startTemperature", "_temperatureChange", "_sectionLayers", "_baseLayers"}

sign(x) == IF x > 0 THEN 1 ELSE IF x < 0 THEN 0 - 1 ELSE 0

\* C1: after a generate request (preset or custom) whose layer-height query
\* returned a positive lh, the stored baseLayers is the least whole number of
\* layers covering 0.8 and sectionLayers the least covering 8.0: both are
\* >= 1, baseLayers * lh >= 0.8 > (baseLayers - 1) * lh, and likewise for 8.0.
C1_LayerCountsAreCeilings ==
    (IsRequest /\ query # <<>> /\ query[1] > 0) =>
        /\ ScheduleFields \subseteq DOMAIN self
        /\ self["_baseLayers"] >= 1
        /\ self["_sectionLayers"] >= 1
        /\ self["_baseLayers"] * query[1] >= nominalBaseHeight
        /\ (self["_baseLayers"] - 1) * query[1] < nominalBaseHeight
        /\ self["_sectionLayers"] * query[1] >= nominalSectionHeight
        /\ (self["_sectionLayers"] - 1) * query[1] < nominalSectionHeight

\* A custom request at 0.3 mm: 3 base layers (0.9 mm) and 27 section layers (8.1 mm).
C1_Witness ==
    /\ lastOp.name = "dialogAccepted"
    /\ query = <<30>>
    /\ self["_baseLayers"] = 3
    /\ self["_sectionLayers"] = 27

\* C2 as stated: after a custom request the stored temperatureChange has the
\* sign of end - start, and is 0 when end = start.
C2_SignEqualsDirection ==
    (lastOp.name = "dialogAccepted" /\ outcome = "ok") =>
        sign(self["_temperatureChange"])
            = sign(float(endTemperatureStr) - float(startTemperatureStr))

\* C2 amended: after a custom request the stored temperatureChange keeps the
\* typed magnitude, is >= 0 when end >= start and <= 0 when end < start.
C2_SignFollowsDirection ==
    (lastOp.name = "dialogAccepted" /\ outcome = "ok") =>
        /\ abs(self["_temperatureChange"]) = abs(float(temperatureChangeStr))
        /\ float(endTemperatureStr) >= float(startTemperatureStr)
              => self["_temperatureChange"] >= 0
        /\ float(endTemperatureStr) < float(startTemperatureStr)
              => self["_temperatureChange"] <= 0

\* Falling temperatures with the change typed as 5: stored as -5.
C2_Witness ==
    /\ lastOp.name = "dialogAccepted"
    /\ outcome = "ok"
    /\ float(endTemperatureStr) < float(startTemperatureStr)
    /\ float(temperatureChangeStr) = 5
    /\ self["_temperatureChange"] = 0 - 5

\* C3: a generate request whose layer-height query returned zero or a negative
\* value ends in an error and invokes no load or generate callback.
C3_BadLayerHeightRejected ==
    (IsRequest /\ query # <<>> /\ query[1] <= 0) =>
        /\ outcome # "ok"
        /\ calls = <<>>

\* C4: a request for a preset that is not a key of the preset table ends as
\* UnknownPreset, leaves every stored attribute as it was, does not query the
\* layer height and invokes no callback.
C4_UnknownPresetChangesNothing ==
    [][ (lastOp'.name = "_loadPreset" /\ lastOp'.preset \notin DOMAIN presetTables) =>
            /\ outcome' = "UnknownPreset"
            /\ self' = self
            /\ handed' = handed
            /\ query' = <<>>
            /\ calls' = <<>> ]_vars

\* 'PLA' requested (the key is 'pla') while a schedule is stored.
C4_Witness ==
    /\ lastOp = [name |-> "_loadPreset", preset |-> "PLA"]
    /\ outcome = "UnknownPreset"
    /\ hasattr(self, "_sectionLayers")

\* C5: a generate request that fails leaves the stored schedule as it was.
C5_FailedRequestChangesNothing ==
    [][ (lastOp'.name \in {"_loadPreset", "dialogAccepted"} /\ outcome' # "ok") =>
            self' = self ]_vars

\* C6: a successful postProcess passes the rewriter the schedule that was
\* stored when postProcess was last handed out as a callback.
C6_PostProcessUsesHandedSchedule ==
    (lastOp.name = "postProcess" /\ outcome = "ok") =>
        /\ handed # <<>>
        /\ calls[1].args[2] = handed[1]["_startTemperature"]
        /\ calls[1].args[3] = handed[1]["_temperatureChange"]
        /\ calls[1].args[4] = handed[1]["_sectionLayers"]
        /\ calls[1].args[5] = handed[1]["_baseLayers"]

\* C8: the parameters a custom request sends to the model generator describe
\* the stored schedule: Starting_Value and Value_Change are the stored
\* startTemperature and temperatureChange, Base_Height and Section_Height are
\* the stored layer counts times the queried layer height; all four
\* attributes are stored when the callback is invoked.
C8_ParametersMatchSchedule ==
    (lastOp.name = "dialogAccepted" /\ calls # <<>>) =>
        /\ outcome = "ok"
        /\ ScheduleFields \subseteq DOMAIN self
        /\ calls[1].fn = "generateAndLoadStlCallback"
        /\ calls[1].params.Starting_Value = self["_startTemperature"]
        /\ calls[1].params.Value_Change = self["_temperatureChange"]
        /\ calls[1].params.Base_Height = self["_baseLayers"] * query[1]
        /\ calls[1].params.Section_Height = self["_sectionLayers"] * query[1]

\* A custom request at 0.3 mm with the change typed as 5 and falling
\* temperatures: Base_Height 0.9 mm, Value_Change -5.
C8_Witness ==
    /\ lastOp.name = "dialogAccepted"
    /\ calls # <<>>
    /\ query = <<30>>
    /\ calls[1].params.Base_Height = 90
    /\ calls[1].params.Section_Height = 810
    /\ float(temperatureChangeStr) = 5
    /\ calls[1].params.Value_Change = 0 - 5

\* C9: once a schedule is stored, postProcess succeeds whatever the dialog's
\* string fields hold.
C9_PostProcessIgnoresDialogText ==
    (lastOp.name = "postProcess" /\ ScheduleFields \subseteq DOMAIN self) =>
        outcome = "ok"

\* C10: whenever postProcess is invoked, the four attributes it reads are
\* defined and it does not fail on a missing one.
C10_ScheduleFieldsDefined ==
    (lastOp.name = "postProcess") =>
        /\ ScheduleFields \subseteq DOMAIN self
        /\ outcome # "AttributeError"

(***************************************************************************)
(* TempTower_PostProcessing.execute: the layer-counting rewriter.  One     *)
(* forward pass; currentLayerIndex counts the markers already passed, so   *)
(* the layer a marker opens has that index (the first layer is layer 0).   *)
(***************************************************************************)
MaxLines == 5

MaxBaseLayers == 2

MaxSectionLayers == 2

\* All streams of at most n lines, each a marker or a move.
Streams(n) == UNION { [1..k -> {Marker, Move}] : k \in 0..n }

Schedules ==
    [startTemperature : {230}, temperatureChange : {-5, 5},
     sectionLayers : 1..MaxSectionLayers, baseLayers : 0..MaxBaseLayers]

\* Faulty variant: the boundary test made after the layer counter was advanced.
sectionStart_late(layerIndex, sch) ==
    /\ layerIndex + 1 >= sch.baseLayers
    /\ (layerIndex + 1 - sch.baseLayers) % sch.sectionLayers = 0

\* layerIndex is the first layer of a section
sectionStart(layerIndex, sch) ==
    /\ layerIndex >= sch.baseLayers
    /\ (layerIndex - sch.baseLayers) % sch.sectionLayers = 0

currentSectionIndex(layerIndex, sch) ==
    IF layerIndex < sch.baseLayers THEN 0
    ELSE (layerIndex - sch.baseLayers) \div sch.sectionLayers

currentTemperature(layerIndex, sch) ==
    sch.startTemperature + currentSectionIndex(layerIndex, sch) * sch.temperatureChange

rwInit ==
    /\ gcode \in Streams(MaxLines)
    /\ schedule \in Schedules
    /\ pos = 0
    /\ currentLayerIndex = 0
    /\ out = <<>>
    /\ rwState = "scanning"

InitRewrite == ctlInit /\ rwInit

\* Scan the next line: copy it, and after a marker that opens a section
\* emit the temperature instruction for that section.
scanLine ==
    /\ rwState = "scanning"
    /\ pos < Len(gcode)
    /\ LET line == gcode[pos + 1] IN
       IF line.op = ";LAYER"
       THEN /\ out' = IF sectionStart(currentLayerIndex, schedule)
                      THEN out \o << line,
                                    Line("M104", currentTemperature(currentLayerIndex, schedule)) >>
                      ELSE Append(out, line)
            /\ currentLayerIndex' = currentLayerIndex + 1
       ELSE /\ out' = Append(out, line)
            /\ UNCHANGED currentLayerIndex
    /\ pos' = pos + 1
    /\ UNCHANGED <<gcode, schedule, rwState, ctlVars>>

\* End of the stream: a stream without any marker is refused, nothing is returned.
finishRewrite ==
    /\ rwState = "scanning"
    /\ pos = Len(gcode)
    /\ IF currentLayerIndex = 0
       THEN rwState' = "MalformedInstructionStream" /\ out' = <<>>
       ELSE rwState' = "done" /\ UNCHANGED out
    /\ UNCHANGED <<gcode, schedule, pos, currentLayerIndex, ctlVars>>

NextRewrite == scanLine \/ finishRewrite

SpecRewrite == InitRewrite /\ [][NextRewrite]_vars

(***************************************************************************)
(* Properties of the rewriter, checked under SpecRewrite                   *)
(***************************************************************************)
RECURSIVE countOp(_, _)
countOp(stream, op) ==
    IF stream = <<>> THEN 0
    ELSE countOp(Tail(stream), op) + (IF Head(stream).op = op THEN 1 ELSE 0)

max(a, b) == IF a >= b THEN a ELSE b

\* C7 as stated: a rewritten stream of L layers holds
\* max(0, floor((L - baseLayers) / sectionLayers) + 1) temperature
\* instructions when L > baseLayers, and none otherwise.
C7_InjectionCountAsStated ==
    rwState = "done" =>
        LET L == countOp(gcode, ";LAYER") IN
        countOp(out, "M104") =
            IF L > schedule.baseLayers
            THEN max(0, ((L - schedule.baseLayers) \div schedule.sectionLayers) + 1)
            ELSE 0

\* C7 amended: a rewritten stream of L layers (indices 0 .. L-1) holds
\* floor((L - 1 - baseLayers) / sectionLayers) + 1 temperature instructions
\* when L > baseLayers, and none otherwise.
C7_InjectionCount ==
    rwState = "done" =>
        LET L == countOp(gcode, ";LAYER") IN
        countOp(out, "M104") =
            IF L > schedule.baseLayers
            THEN ((L - 1 - schedule.baseLayers) \div schedule.sectionLayers) + 1
            ELSE 0

\* A stream that ends exactly where the next section would start: two
\* instructions, not three.
C7_Witness ==
    /\ rwState = "done"
    /\ countOp(gcode, ";LAYER") = schedule.baseLayers + 2 * schedule.sectionLayers
    /\ countOp(out, "M104") = 2
====
